---- MODULE Spec2Model ----
(***************************************************************************)
(* Router / App navigation dispatch of projet-gestion-sportive             *)
(* (js/router.js, js/app.js, version.js) as a state machine.               *)
(*                                                                         *)
(* JS strings are sequences of tokens: the characters the code splits on   *)
(* or tests for ("#", "?", "&", "=") are tokens of their own, every other  *)
(* token is a run of characters none of which is one of those four.        *)
(* The empty string is << >>.  JS objects used as maps are sequences of    *)
(* entries [k, v] in insertion order, with unique keys.                    *)
(*                                                                         *)
(* One step of the machine is one run-to-completion segment of the JS      *)
(* event loop: either a task (a call made by the page, an event handler,   *)
(* the settling of a network load) or one microtask (the continuation of   *)
(* an async function after an await).  Microtasks run in FIFO order and    *)
(* before any further task.  A synchronous nested call (the fallback       *)
(* navigation, the login redirect) runs inside the segment that makes it.  *)
(***************************************************************************)
EXTENDS Integers, Sequences, FiniteSets, TLC

VARIABLES
    menuConfig,     \* App.menuConfig: [menuItems, defaultModule]
    authOk,         \* what the installed Router.checkAuthentication returns
    hookMode,       \* "shipped" or "overridden": which navigation hooks run
    routes,         \* Router.routes: Map in insertion order, a sequence of routes
    currentRoute,   \* Router.currentRoute: Null or a prepared route
    history,        \* Router.history
    hash,           \* window.location.hash
    hashEvents,     \* hashchange events dispatched to the page, not yet handled
    frames,         \* the async calls in flight (navigate, navigateToModule)
    microq,         \* the microtask queue: frame slots whose continuation is ready
    ret,            \* the navigate promises settled by the last step
    loadedModules,  \* App.loadedModules: the module cache
    currentModule,  \* App.currentModule
    content,        \* what elements.mainContent shows
    loading,        \* whether the loading overlay is visible
    activeMenu,     \* the menu link carrying the class "active"
    overflow,       \* the synchronous call chain exceeded the call stack
    emitted,        \* 'router:navigate' events dispatched on window so far
    hookFaults,     \* times an overriding hook has vetoed or thrown so far
    pageCalls,      \* calls the page has made to the router so far
    visited,        \* history variable: the last two routes the initial navigate
                    \* or a navigate of the page resolved true for, oldest first
    destroyed,      \* history variable: Router.destroy has run
    pendingInits,   \* AccueilModule.init calls waiting in loadDashboardData
    refreshTimers   \* intervals startAutoRefresh has set and nothing has cleared

vars == << menuConfig, authOk, hookMode, routes, currentRoute, history, hash,
           hashEvents, frames, microq, ret, loadedModules, currentModule,
           content, loading, activeMenu, overflow, emitted, hookFaults, pageCalls,
           visited, destroyed, pendingInits, refreshTimers >>

-----------------------------------------------------------------------------
(* Bounds of the model *)

\* async calls that may be in flight at once
MaxInFlight == 3
\* calls the page makes to the router in one run
MaxPageCalls == 2
\* depth of a chain of synchronous nested navigate calls
MaxDepth == 4
\* times the overriding hooks veto or throw in one run
MaxHookFaults == 1

(* Program constants *)

\* Router.maxHistorySize
maxHistorySize == 50

-----------------------------------------------------------------------------
(* JS values *)

Null == [null |-> TRUE]
Str(s) == [str |-> s]
True == [bool |-> TRUE]
IsTrue(v) == v = True

\* a truthy test on a string: the empty string is falsy
Truthy(s) == s # << >>

RECURSIVE IndexOf(_, _, _)
\* the first position >= i of token t in s, or 0
IndexOf(s, t, i) ==
    IF i > Len(s) THEN 0
    ELSE IF s[i] = t THEN i
    ELSE IndexOf(s, t, i + 1)

RECURSIVE Split(_, _)
\* String.prototype.split(sep): the pieces of s between the tokens sep
Split(s, sep) ==
    LET i == IndexOf(s, sep, 1) IN
    IF i = 0 THEN << s >>
    ELSE << SubSeq(s, 1, i - 1) >> \o Split(SubSeq(s, i + 1, Len(s)), sep)

\* the destructuring  const [a, b] = pieces : a missing element is undefined
Piece(pieces, n) == IF n <= Len(pieces) THEN Str(pieces[n]) ELSE Null

\* String.prototype.replace('#', ''): removes the first "#" only
ReplaceFirstHash(s) ==
    LET i == IndexOf(s, "#", 1) IN
    IF i = 0 THEN s ELSE SubSeq(s, 1, i - 1) \o SubSeq(s, i + 1, Len(s))

\* encodeURIComponent on one token
EncodeToken(t) ==
    CASE t = "#" -> "%23"
      [] t = "?" -> "%3F"
      [] t = "&" -> "%26"
      [] t = "=" -> "%3D"
      [] t = "a b" -> "a%20b"
      [] t = "%" -> "%25"
      [] OTHER -> t

\* decodeURIComponent on one token
DecodeToken(t) ==
    CASE t = "%23" -> "#"
      [] t = "%3F" -> "?"
      [] t = "%26" -> "&"
      [] t = "%3D" -> "="
      [] t = "a%20b" -> "a b"
      [] t = "%25" -> "%"
      [] OTHER -> t

encodeURIComponent(s) == [i \in 1..Len(s) |-> EncodeToken(s[i])]
decodeURIComponent(s) == [i \in 1..Len(s) |-> DecodeToken(s[i])]

RECURSIVE Join(_, _)
\* Array.prototype.join(sep)
Join(parts, sep) ==
    IF Len(parts) = 0 THEN << >>
    ELSE IF Len(parts) = 1 THEN parts[1]
    ELSE parts[1] \o << sep >> \o Join(Tail(parts), sep)

\* obj[k] = v on a map kept in insertion order
ObjSet(obj, k, v) ==
    IF \E i \in 1..Len(obj) : obj[i].k = k
    THEN [i \in 1..Len(obj) |-> IF obj[i].k = k THEN [k |-> k, v |-> v] ELSE obj[i]]
    ELSE Append(obj, [k |-> k, v |-> v])

RECURSIVE ParseParams(_, _)
\* the forEach body of Router.parseQueryString over the split parameters
ParseParams(parts, params) ==
    IF Len(parts) = 0 THEN params
    ELSE
        LET kv    == Split(parts[1], "=")
            key   == kv[1]
            value == Piece(kv, 2)
            next  == IF Truthy(key)
                     THEN ObjSet(params, decodeURIComponent(key),
                                 IF value # Null /\ Truthy(value.str)
                                 THEN Str(decodeURIComponent(value.str))
                                 ELSE True)
                     ELSE params
        IN ParseParams(Tail(parts), next)

\* Router.parseQueryString
parseQueryString(queryString) ==
    IF ~Truthy(queryString) THEN << >>
    ELSE ParseParams(Split(queryString, "&"), << >>)

RECURSIVE QueryParts(_)
\* the forEach body of Router.buildQueryString over Object.entries(params)
QueryParts(params) ==
    IF Len(params) = 0 THEN << >>
    ELSE
        LET e == params[1]
            part == encodeURIComponent(e.k)
                    \o (IF IsTrue(e.v) THEN << >>
                        ELSE << "=" >> \o encodeURIComponent(e.v.str))
        IN (IF e.v # Null THEN << part >> ELSE << >>) \o QueryParts(Tail(params))

\* Router.buildQueryString
buildQueryString(params) ==
    LET queryParts == QueryParts(params) IN
    IF Len(queryParts) > 0 THEN << "?" >> \o Join(queryParts, "&") ELSE << >>

-----------------------------------------------------------------------------
(* The menu configuration (data/menu-config.json) the App is started with *)

Item(order, module, url, active, requiresAuth) ==
    [order |-> order, module |-> module, url |-> url, active |-> active,
     requiresAuth |-> requiresAuth]

\* unique paths, a protected route, a login route, an inactive item, a
\* configured default; the items are not in the order of their `order`
ConfigAuth ==
    [menuItems |-> << Item(2, "equipes", << "#", "equipes" >>, TRUE, FALSE),
                      Item(1, "accueil", << "#", "accueil" >>, TRUE, FALSE),
                      Item(3, "admin", << "#", "admin" >>, TRUE, TRUE),
                      Item(5, "login", << "#", "login" >>, TRUE, FALSE),
                      Item(4, "archive", << "#", "archive" >>, FALSE, FALSE) >>,
     defaultModule |-> Str("equipes")]

\* two menu items with the same url, the second one protected, no login
\* route, no configured default
ConfigShared ==
    [menuItems |-> << Item(1, "accueil", << "#", "accueil" >>, TRUE, FALSE),
                      Item(2, "equipes", << "#", "equipes" >>, TRUE, FALSE),
                      Item(3, "joueurs", << "#", "equipes" >>, TRUE, TRUE) >>,
     defaultModule |-> Null]

MenuConfigs == {ConfigAuth, ConfigShared}

RECURSIVE InsertByOrder(_, _)
InsertByOrder(sorted, item) ==
    IF Len(sorted) = 0 THEN << item >>
    ELSE IF item.order < sorted[1].order THEN << item >> \o sorted
    ELSE << sorted[1] >> \o InsertByOrder(Tail(sorted), item)

RECURSIVE SortByOrder(_)
\* menuItems.sort((a, b) => a.order - b.order), a stable sort
SortByOrder(items) ==
    IF Len(items) = 0 THEN << >>
    ELSE InsertByOrder(SortByOrder(SubSeq(items, 1, Len(items) - 1)), items[Len(items)])

\* App.loadMenuConfiguration
loadMenuConfiguration(config) ==
    [config EXCEPT !.menuItems = SortByOrder(config.menuItems)]

\* menuConfig?.settings?.defaultModule || 'accueil'
DefaultModule(s) ==
    IF s.menuConfig.defaultModule # Null /\ s.menuConfig.defaultModule.str # ""
    THEN s.menuConfig.defaultModule.str
    ELSE "accueil"

-----------------------------------------------------------------------------
(* The inputs the page may pass to navigate *)

NoParams == << >>
TabParams == << [k |-> << "tab" >>, v |-> Str(<< "1" >>)] >>

NoQuery == << >>
SortQuery == << [k |-> << "tri" >>, v |-> Str(<< "nom" >>)] >>
\* a query parameter whose value is the empty string
EmptyQuery == << [k |-> << "vide" >>, v |-> Str(<< >>)] >>

\* the (params, query) pairs the page passes
NavArgs == { << NoParams, NoQuery >>, << TabParams, SortQuery >>,
             << NoParams, EmptyQuery >> }

\* route ids the page asks for: every module of the menu and an unknown id
NavIds(s) ==
    {s.menuConfig.menuItems[i].module : i \in 1..Len(s.menuConfig.menuItems)}
        \cup {"inconnu"}

-----------------------------------------------------------------------------
(* The program state as one record, so that a run-to-completion segment is  *)
(* the composition of the functions it calls.                               *)

S ==
    [menuConfig |-> menuConfig, authOk |-> authOk, hookMode |-> hookMode,
     routes |-> routes, currentRoute |-> currentRoute, history |-> history,
     hash |-> hash, hashEvents |-> hashEvents, frames |-> frames,
     microq |-> microq, ret |-> << >>, loadedModules |-> loadedModules,
     currentModule |-> currentModule, content |-> content, loading |-> loading,
     activeMenu |-> activeMenu, overflow |-> overflow, emitted |-> emitted,
     hookFaults |-> hookFaults, pageCalls |-> pageCalls,
     visited |-> visited, destroyed |-> destroyed,
     pendingInits |-> pendingInits, refreshTimers |-> refreshTimers]

Commit(s) ==
    /\ menuConfig' = s.menuConfig
    /\ authOk' = s.authOk
    /\ hookMode' = s.hookMode
    /\ routes' = s.routes
    /\ currentRoute' = s.currentRoute
    /\ history' = s.history
    /\ hash' = s.hash
    /\ hashEvents' = s.hashEvents
    /\ frames' = s.frames
    /\ microq' = s.microq
    /\ ret' = s.ret
    /\ loadedModules' = s.loadedModules
    /\ currentModule' = s.currentModule
    /\ content' = s.content
    /\ loading' = s.loading
    /\ activeMenu' = s.activeMenu
    /\ overflow' = s.overflow
    /\ emitted' = s.emitted
    /\ hookFaults' = s.hookFaults
    /\ pageCalls' = s.pageCalls
    /\ visited' = s.visited
    /\ destroyed' = s.destroyed
    /\ pendingInits' = s.pendingInits
    /\ refreshTimers' = s.refreshTimers

InitialState(s) ==
    /\ menuConfig = s.menuConfig
    /\ authOk = s.authOk
    /\ hookMode = s.hookMode
    /\ routes = s.routes
    /\ currentRoute = s.currentRoute
    /\ history = s.history
    /\ hash = s.hash
    /\ hashEvents = s.hashEvents
    /\ frames = s.frames
    /\ microq = s.microq
    /\ ret = s.ret
    /\ loadedModules = s.loadedModules
    /\ currentModule = s.currentModule
    /\ content = s.content
    /\ loading = s.loading
    /\ activeMenu = s.activeMenu
    /\ overflow = s.overflow
    /\ emitted = s.emitted
    /\ hookFaults = s.hookFaults
    /\ pageCalls = s.pageCalls
    /\ visited = s.visited
    /\ destroyed = s.destroyed
    /\ pendingInits = s.pendingInits
    /\ refreshTimers = s.refreshTimers

Slots == 1..MaxInFlight
Free == [kind |-> "free"]
IsFree(s, i) == s.frames[i].kind = "free"
HasFreeSlot(s) == \E i \in Slots : IsFree(s, i)
FreeSlot(s) == CHOOSE i \in Slots : IsFree(s, i) /\ \A j \in Slots : IsFree(s, j) => i <= j

\* nothing in flight: no async call, no microtask, no undelivered event
Quiescent(s) ==
    /\ \A i \in Slots : IsFree(s, i)
    /\ s.microq = << >>
    /\ s.hashEvents = 0

-----------------------------------------------------------------------------
(* Router: route table, history *)

RouteIndex(s, routeId) ==
    IF \E i \in 1..Len(s.routes) : s.routes[i].id = routeId
    THEN CHOOSE i \in 1..Len(s.routes) : s.routes[i].id = routeId
    ELSE 0

\* Router.hasRoute, this.routes.has
hasRoute(s, routeId) == RouteIndex(s, routeId) # 0

\* Router.getRoute, this.routes.get
getRoute(s, routeId) == s.routes[RouteIndex(s, routeId)]

\* a registerRoute that adds an entry without looking for one with the same id
RegisterRouteAppend(s, routeId, routeConfig) ==
    IF routeConfig.module = "" THEN s
    ELSE [s EXCEPT !.routes = Append(@, [id |-> routeId, path |-> routeConfig.path,
                                        module |-> routeConfig.module,
                                        requiresAuth |-> routeConfig.requiresAuth,
                                        params |-> << >>, query |-> << >>])]

\* Router.registerRoute, line 74: the validation that throws
registerRouteThrows(routeConfig) == routeConfig.module = ""

\* Router.registerRoute; routeConfig is [path, module, requiresAuth].
\* A configuration without a module throws before the table is touched.
registerRoute(s, routeId, routeConfig) ==
    IF routeConfig.module = "" THEN s
    ELSE
        LET path0 == IF Truthy(routeConfig.path) THEN routeConfig.path ELSE << routeId >>
            path  == IF Len(path0) > 0 /\ path0[1] = "#" THEN Tail(path0) ELSE path0
            route == [id |-> routeId, path |-> path, module |-> routeConfig.module,
                      requiresAuth |-> routeConfig.requiresAuth,
                      params |-> << >>, query |-> << >>]
            i == RouteIndex(s, routeId)
        IN [s EXCEPT !.routes = IF i = 0 THEN Append(@, route) ELSE [@ EXCEPT ![i] = route]]

RECURSIVE RegisterItems(_, _)
RegisterItems(s, items) ==
    IF Len(items) = 0 THEN s
    ELSE
        LET item == items[1]
            s1 == IF item.active
                  THEN registerRoute(s, item.module,
                                     [path |-> ReplaceFirstHash(item.url),
                                      module |-> item.module,
                                      requiresAuth |-> item.requiresAuth])
                  ELSE s
        IN RegisterItems(s1, Tail(items))

\* Router.registerRoutesFromConfig
registerRoutesFromConfig(s) == RegisterItems(s, s.menuConfig.menuItems)

HistoryEntry(route) == [id |-> route.id, params |-> route.params, query |-> route.query]

\* a saveToHistory that pushes every route it is given
SaveToHistoryAlways(s, route) ==
    IF route # Null
    THEN LET pushed == Append(s.history, HistoryEntry(route)) IN
         [s EXCEPT !.history = IF Len(pushed) > maxHistorySize THEN Tail(pushed) ELSE pushed]
    ELSE s

\* a saveToHistory that drops the newest entry when the stack is full
SaveToHistoryDropNewest(s, route) ==
    IF route # Null /\ (s.currentRoute = Null \/ route.id # s.currentRoute.id)
    THEN LET pushed == Append(s.history, HistoryEntry(route)) IN
         [s EXCEPT !.history = IF Len(pushed) > maxHistorySize
                               THEN SubSeq(pushed, 1, maxHistorySize) ELSE pushed]
    ELSE s

\* Router.saveToHistory.  The entry's timestamp (Date.now()) is read by no code
\* and is left out.
saveToHistory(s, route) ==
    IF route # Null /\ (s.currentRoute = Null \/ route.id # s.currentRoute.id)
    THEN LET pushed == Append(s.history, HistoryEntry(route)) IN
         [s EXCEPT !.history = IF Len(pushed) > maxHistorySize THEN Tail(pushed) ELSE pushed]
    ELSE s

\* a checkAuthentication that lets everyone through
CheckAuthenticationAlways(s) == TRUE

\* Router.checkAuthentication: an overridable method; the shipped body returns
\* true, authOk is what the installed one returns
checkAuthentication(s) == s.authOk

\* what Router.executeBeforeNavigationHooks may do: the shipped body resolves
\* true; an overriding one may resolve false or throw
HookOutcomes(s) ==
    IF s.hookMode = "shipped" \/ s.hookFaults >= MaxHookFaults
    THEN {"pass"} ELSE {"pass", "veto", "throw"}

\* Router.executeAfterNavigationHooks: overridable too; the shipped body only
\* logs, an installed one may throw (its value is ignored)
AfterHookOutcomes(s) ==
    IF s.hookMode = "shipped" \/ s.hookFaults >= MaxHookFaults
    THEN {"pass"} ELSE {"pass", "throw"}

-----------------------------------------------------------------------------
(* Router.navigate, the segment that runs synchronously in the caller *)

\* who made a call, why, and for which outermost call
Meta(origin, cause, root) ==
    [origin |-> origin, cause |-> cause, root |-> root]

\* the state a call starts from
Snap(s) ==
    [cur |-> s.currentRoute, hist |-> s.history, hash |-> s.hash,
     content |-> s.content, module |-> s.currentModule,
     hashEvents |-> s.hashEvents, emitted |-> s.emitted]

\* the settling of the promise navigate returned
Settled(routeId, params, query, meta, snap, result, why, previousRoute) ==
    [kind |-> "navigate", id |-> routeId, params |-> params, query |-> query,
     meta |-> meta, snap |-> snap, result |-> result, why |-> why,
     previousRoute |-> previousRoute]

Return(s, ev) == [s EXCEPT !.ret = Append(@, ev)]

RECURSIVE navigate(_, _, _, _, _, _)
RECURSIVE handleNavigationError(_, _, _, _, _)

\* a handleNavigationError that starts no fallback navigation
HandleNavigationErrorNoFallback(s, routeId, meta, cause, depth) == s

\* Router.handleNavigationError
handleNavigationError(s, routeId, meta, cause, depth) ==
    LET fallbackRoute == DefaultModule(s) IN
    IF routeId # fallbackRoute
    THEN navigate(s, fallbackRoute, << >>, << >>,
                  Meta("fallback", cause, meta.root), depth + 1)
    ELSE s

\* Router.navigate up to its first await (lines 104-133).  meta.root is Null
\* for a call made from outside navigate; a nested call carries the current
\* route and history its outermost call started from.
navigate(s, routeId, params, query, meta0, depth) ==
    IF depth > MaxDepth THEN [s EXCEPT !.overflow = TRUE]
    ELSE
    LET snap == Snap(s)
        meta == meta0
        root == IF meta0.root = Null
                THEN [cur |-> s.currentRoute, hist |-> s.history]
                ELSE meta0.root
    IN  IF ~hasRoute(s, routeId)
        THEN Return(handleNavigationError(s, routeId, [meta EXCEPT !.root = root],
                                          "unknown", depth),
                    Settled(routeId, params, query, meta, snap, "false", "unknown", Null))
        ELSE
        LET route == getRoute(s, routeId) IN
        IF route.requiresAuth /\ ~checkAuthentication(s)
        THEN Return(navigate(s, "login", << >>, << >>,
                             Meta("login", "auth", root), depth + 1),
                    Settled(routeId, params, query, meta, snap, "false", "auth", Null))
        ELSE
        LET preparedRoute == [route EXCEPT !.params = params, !.query = query]
            s1 == saveToHistory(s, s.currentRoute)
            slot == FreeSlot(s1)
            frame == [kind |-> "navigate", pc |-> "N1", id |-> routeId,
                      module |-> route.module, route |-> preparedRoute,
                      previousRoute |-> Null, meta |-> meta, snap |-> snap,
                      updateHistory |-> FALSE, script |-> "none", html |-> "none",
                      instance |-> Null]
        IN [s1 EXCEPT !.frames[slot] = frame, !.microq = Append(@, slot)]

-----------------------------------------------------------------------------
(* App: module loading and rendering *)

\* this.menuConfig.menuItems.find(item => item.module === moduleId)
ItemExists(s, moduleId) ==
    \E i \in 1..Len(s.menuConfig.menuItems) : s.menuConfig.menuItems[i].module = moduleId

\* the menu holds a link for every active item (App.generateNavigation)
MenuHasLink(s, moduleId) ==
    \E i \in 1..Len(s.menuConfig.menuItems) :
        /\ s.menuConfig.menuItems[i].module = moduleId
        /\ s.menuConfig.menuItems[i].active

\* modules whose behavior script defines the class getModuleClassName names
ModulesWithClass == {"accueil"}

\* modules whose script defines the class with a constructor that throws
ConstructorThrows == {"admin"}

\* what the server holds: js/modules/<id>.js and templates/modules/<id>.html.
\* A load of a file the server does not hold fails.
ScriptsServed == {"accueil", "admin", "joueurs"}
TemplatesServed == {"accueil", "equipes", "admin", "login"}
ScriptOutcome(moduleId) == IF moduleId \in ScriptsServed THEN "ok" ELSE "fail"
HtmlOutcome(moduleId) == IF moduleId \in TemplatesServed THEN "ok" ELSE "fail"

ErrorPanel(moduleId) == [kind |-> "error", module |-> moduleId, instance |-> Null]
Welcome == [kind |-> "welcome", module |-> "", instance |-> Null]

IsCached(s, moduleId) == moduleId \in DOMAIN s.loadedModules

FreeFrame(s, slot) == [s EXCEPT !.frames[slot] = Free]

Ready(s, slot, pc) ==
    [s EXCEPT !.frames[slot].pc = pc, !.microq = Append(@, slot)]

\* App.clearCache
clearCache(s) == [s EXCEPT !.loadedModules = << >>]

\* App.showError
showError(s, moduleId) == [s EXCEPT !.content = ErrorPanel(moduleId)]

\* App.showLoading
showLoading(s, show) == [s EXCEPT !.loading = show]

\* App.setActiveMenu
setActiveMenu(s, moduleId) ==
    [s EXCEPT !.activeMenu = IF moduleId # Null /\ MenuHasLink(s, moduleId.str)
                             THEN moduleId ELSE Null]

\* AccueilModule.init up to its first await (accueil.js lines 20-28): the
\* elements of the markup just injected are found, loadDashboardData starts
\* its delay and init yields
init(s) == [s EXCEPT !.pendingInits = @ + 1]

\* App.renderModule: inject the markup, call the instance's init() if any
renderModule(s, moduleId, html, instance) ==
    LET s1 == [s EXCEPT !.content = [kind |-> "module", module |-> html,
                                     instance |-> instance]]
    IN IF instance # Null THEN init(s1) ELSE s1

\* the promise navigateToModule returned settles: Router.navigate resumes
\* after line 147, a direct call is over
navigateToModuleSettles(s, slot) ==
    IF s.frames[slot].kind = "navigate"
    THEN Ready(s, slot, "N2")
    ELSE FreeFrame(s, slot)

\* a fatal error of navigateToModule, with the state it happened in
ModuleFailed(s, slot) ==
    [kind |-> "moduleFailed", module |-> s.frames[slot].module, slot |-> slot,
     caller |-> s.frames[slot].kind, currentModule |-> s.currentModule,
     cached |-> DOMAIN s.loadedModules]

\* a navigateToModule that records the module as the current one although it
\* failed
NavigateToModuleFailsRecording(s, slot) ==
    Return(navigateToModuleSettles(
               showLoading(showError([s EXCEPT !.currentModule = Str(s.frames[slot].module)],
                                     s.frames[slot].module), FALSE), slot),
           ModuleFailed(s, slot))

\* the catch and finally of App.navigateToModule (lines 212-217)
navigateToModuleFails(s, slot) ==
    Return(navigateToModuleSettles(
               showLoading(showError(s, s.frames[slot].module), FALSE), slot),
           ModuleFailed(s, slot))

\* a loadModule that does not look into the cache
LoadModuleNoCache(s, slot) ==
    [s EXCEPT !.frames[slot].pc = "L1",
              !.frames[slot].html = "pending",
              !.frames[slot].script = "pending"]

\* App.loadModule up to its first await (lines 223-238)
loadModule(s, slot) ==
    LET moduleId == s.frames[slot].module IN
    IF IsCached(s, moduleId)
    THEN LET cachedModule == s.loadedModules[moduleId] IN
         Ready(renderModule(s, moduleId, cachedModule.html, cachedModule.instance),
               slot, "M1")
    ELSE [s EXCEPT !.frames[slot].pc = "L1",
                   !.frames[slot].html = "pending",
                   !.frames[slot].script = "pending"]

\* App.navigateToModule up to its first await (lines 170-192)
navigateToModule(s, slot) ==
    IF ~ItemExists(s, s.frames[slot].module)
    THEN navigateToModuleFails(s, slot)
    ELSE loadModule(setActiveMenu(showLoading(s, TRUE), Null), slot)

\* a loadModule for which a failing script is fatal
LoadModuleAfterScriptFatal(s, slot) ==
    LET f == s.frames[slot]
        moduleInstance == IF f.module \in ModulesWithClass THEN Str(f.module) ELSE Null
        s1 == [s EXCEPT !.frames[slot].instance = moduleInstance]
    IN IF f.script = "fail" \/ f.module \in ConstructorThrows
       THEN navigateToModuleFails(s, slot)
       ELSE IF f.html = "pending"
       THEN [s1 EXCEPT !.frames[slot].pc = "L2"]
       ELSE Ready(s1, slot, "L2")

\* App.loadModule after the script load settled (lines 238-249): a rejected
\* load and a throwing constructor are both caught (lines 245-247)
loadModuleAfterScript(s, slot) ==
    LET f == s.frames[slot]
        moduleInstance == IF /\ f.script = "ok"
                             /\ f.module \in ModulesWithClass \cup ConstructorThrows
                             /\ f.module \notin ConstructorThrows
                          THEN Str(f.module) ELSE Null
        s1 == [s EXCEPT !.frames[slot].instance = moduleInstance]
    IN IF f.html = "pending"
       THEN [s1 EXCEPT !.frames[slot].pc = "L2"]
       ELSE Ready(s1, slot, "L2")

\* a loadModule that caches and renders whatever the template fetch gave
LoadModuleAfterHtmlLenient(s, slot) ==
    LET f == s.frames[slot]
        entry == [html |-> f.module, instance |-> f.instance]
        s1 == [s EXCEPT !.loadedModules = (f.module :> entry) @@ @]
    IN Ready(renderModule(s1, f.module, entry.html, entry.instance), slot, "M1")

\* App.loadModule after the template fetch settled (lines 249-262)
loadModuleAfterHtml(s, slot) ==
    LET f == s.frames[slot] IN
    IF f.html = "fail"
    THEN navigateToModuleFails(s, slot)
    ELSE LET entry == [html |-> f.module, instance |-> f.instance]
             s1 == [s EXCEPT !.loadedModules = (f.module :> entry) @@ @]
         IN Ready(renderModule(s1, f.module, entry.html, entry.instance), slot, "M1")

\* this.menuConfig.menuItems.find(item => item.module === moduleId), for a
\* module that has an item
ItemOf(s, moduleId) ==
    LET items == s.menuConfig.menuItems
        hits == {i \in 1..Len(items) : items[i].module = moduleId}
    IN items[CHOOSE i \in hits : \A j \in hits : i <= j]

\* history.pushState(state, label, url) with a fragment url: the address
\* changes and no hashchange event is dispatched
pushState(s, url) == [s EXCEPT !.hash = url]

\* the completion of a navigateToModule called from outside the Router
Activated(f) ==
    [kind |-> "activated", module |-> f.module, meta |-> f.meta, snap |-> f.snap]

\* App.navigateToModule after loadModule (lines 194-217)
navigateToModuleAfterLoad(s, slot) ==
    LET moduleId == s.frames[slot].module
        moduleConfig == ItemOf(s, moduleId)
        s1 == setActiveMenu(s, Str(moduleId))
        s2 == IF s.frames[slot].updateHistory
              THEN pushState(s1, IF Truthy(moduleConfig.url) THEN moduleConfig.url
                                 ELSE << "#", moduleId >>)
              ELSE s1
        s3 == [s2 EXCEPT !.currentModule = Str(moduleId)]
        s4 == navigateToModuleSettles(showLoading(s3, FALSE), slot)
    IN IF s.frames[slot].kind = "module"
       THEN Return(s4, Activated(s.frames[slot]))
       ELSE s4

-----------------------------------------------------------------------------
(* Router.navigate after its awaits *)

\* an updateURL that assigns the fragment without comparing it to the address,
\* with a hashchange for every assignment
UpdateURLAlways(s, route) ==
    LET queryString == buildQueryString(route.query)
        newHash == << "#" >> \o route.path \o queryString
    IN [s EXCEPT !.hash = newHash, !.hashEvents = @ + 1]

\* Router.updateURL in hash mode (config.hashMode is true): assigning a new
\* fragment makes the browser dispatch a hashchange event
updateURL(s, route) ==
    LET queryString == buildQueryString(route.query)
        newHash == << "#" >> \o route.path \o queryString
    IN IF s.hash # newHash
       THEN [s EXCEPT !.hash = newHash, !.hashEvents = @ + 1]
       ELSE s

\* the settling of a call that had reached an await, with what became of the
\* template fetch of its loadModule ("none": not issued)
FrameSettled(f, result, why) ==
    Settled(f.id, f.route.params, f.route.query, f.meta, f.snap, result, why,
            f.previousRoute) @@ [html |-> f.html, module |-> f.module]

\* a catch block that lets the error escape: the promise rejects
NavigateCatchRethrow(s, slot, cause) ==
    Return(FreeFrame(s, slot), FrameSettled(s.frames[slot], "rejected", cause))

\* the catch block of Router.navigate (lines 162-166) for a call that had
\* reached an await
navigateCatch(s, slot, cause) ==
    LET f == s.frames[slot] IN
    Return(handleNavigationError(FreeFrame(s, slot), f.id,
                                 [f.meta EXCEPT !.root = IF @ = Null /\ f.snap # Null
                                     THEN [cur |-> f.snap.cur, hist |-> f.snap.hist]
                                     ELSE @],
                                 cause, 0),
           FrameSettled(f, "false", cause))

\* a navigate that sets the current route before asking the hooks
NavigateAfterHooksEager(s, slot, outcome) ==
    LET f == s.frames[slot]
        s1 == [s EXCEPT !.frames[slot].previousRoute = s.currentRoute,
                        !.currentRoute = f.route]
    IN IF outcome = "veto"
       THEN Return(FreeFrame(s1, slot), FrameSettled(f, "false", "veto"))
       ELSE IF outcome = "throw" THEN navigateCatch(s1, slot, "throw")
       ELSE navigateToModule(updateURL(s1, f.route), slot)

\* a navigate that sets params and query on the route of the table itself
NavigateAfterHooksSharing(s, slot, outcome) ==
    LET f == s.frames[slot] IN
    IF outcome = "veto"
    THEN Return(FreeFrame(s, slot), FrameSettled(f, "false", "veto"))
    ELSE IF outcome = "throw" THEN navigateCatch(s, slot, "throw")
    ELSE LET s1 == [s EXCEPT !.frames[slot].previousRoute = s.currentRoute,
                             !.frames[slot].snap = Null,
                             !.routes[RouteIndex(s, f.id)] = f.route,
                             !.currentRoute = f.route]
         IN navigateToModule(updateURL(s1, f.route), slot)

\* Router.navigate from the hooks' answer to the await of navigateToModule
\* (lines 133-147)
navigateAfterHooks(s, slot, outcome) ==
    LET f == s.frames[slot] IN
    IF outcome = "veto"
    THEN Return(FreeFrame(s, slot), FrameSettled(f, "false", "veto"))
    ELSE IF outcome = "throw" THEN navigateCatch(s, slot, "throw")
    ELSE LET s1 == [s EXCEPT !.frames[slot].previousRoute = s.currentRoute,
                             !.frames[slot].snap = Null,
                             !.currentRoute = f.route]
         IN navigateToModule(updateURL(s1, f.route), slot)

\* Router.navigate, lines 149-150: the after-navigation hooks are awaited
navigateAfterModule(s, slot) == Ready(s, slot, "N3")

\* the history variable `visited` after the initial navigate or a navigate of
\* the page resolved true (the navigations the address echoes back are left out)
Visit(s, f) ==
    IF f.meta.origin \in {"caller", "init"}
    THEN [s EXCEPT !.visited =
            LET v == Append(@, HistoryEntry(f.route)) IN
            IF Len(v) > 2 THEN Tail(v) ELSE v]
    ELSE s

\* Router.emitNavigationEvent: the CustomEvent 'router:<eventName>' with its
\* detail (the timestamp is left out) is dispatched on window
emitNavigationEvent(s, eventName, current, previous) ==
    Return([s EXCEPT !.emitted = @ + 1],
           [kind |-> "event", name |-> << "router:", eventName >>,
            detail |-> [currentRoute |-> current, previousRoute |-> previous]])

\* a navigate that emits its event before it awaits the after-navigation hooks
NavigateFinishEmitsFirst(s, slot, outcome) ==
    LET f == s.frames[slot]
        s1 == emitNavigationEvent(s, "navigate", f.route, f.previousRoute)
    IN IF outcome = "throw" THEN navigateCatch(s1, slot, "throw")
       ELSE Return(Visit(FreeFrame(s1, slot), f), FrameSettled(f, "true", "ok"))

\* Router.navigate, lines 150-160: the after-navigation hooks have settled;
\* scroll, emit 'router:navigate', return true
navigateFinish(s, slot, outcome) ==
    IF outcome = "throw" THEN navigateCatch(s, slot, "throw")
    ELSE LET f == s.frames[slot] IN
         Return(Visit(FreeFrame(emitNavigationEvent(s, "navigate", f.route,
                                                    f.previousRoute), slot), f),
                FrameSettled(f, "true", "ok"))

-----------------------------------------------------------------------------
(* Router: address parsing, initial route, goBack *)

\* Router.parseCurrentURL in hash mode
parseCurrentURL(s) ==
    LET h == IF Len(s.hash) > 0 THEN Tail(s.hash) ELSE << >>
        pieces == Split(h, "?")
        hashPath == pieces[1]
        queryString == Piece(pieces, 2)
    IN [path |-> hashPath,
        query |-> IF queryString # Null /\ Truthy(queryString.str)
                  THEN parseQueryString(queryString.str) ELSE << >>]

\* the first route, in insertion order, whose path is the parsed path
FirstRouteWithPath(s, path) ==
    LET hits == {i \in 1..Len(s.routes) : s.routes[i].path = path} IN
    IF hits = {} THEN Null
    ELSE Str(s.routes[CHOOSE i \in hits : \A j \in hits : i <= j].id)

\* a handleInitialRoute that takes the last matching route
HandleInitialRouteLast(s, meta) ==
    LET url == parseCurrentURL(s)
        hits == {i \in 1..Len(s.routes) : s.routes[i].path = url.path}
        targetRoute == IF hits = {} THEN DefaultModule(s)
                       ELSE s.routes[CHOOSE i \in hits : \A j \in hits : i >= j].id
    IN navigate(s, targetRoute, << >>, url.query, meta, 0)

\* Router.handleInitialRoute
handleInitialRoute(s, meta) ==
    LET url == parseCurrentURL(s)
        found == FirstRouteWithPath(s, url.path)
        targetRoute == IF found # Null /\ found.str # "" THEN found.str
                       ELSE DefaultModule(s)
    IN navigate(s, targetRoute, << >>, url.query, meta, 0)

WentBack(snap, result, target) ==
    [kind |-> "goBack", snap |-> snap, result |-> result, target |-> target]

\* a goBack that answers true also when the history is empty
GoBackAlwaysTrue(s, meta) ==
    IF Len(s.history) > 0
    THEN LET previousRoute == s.history[Len(s.history)]
             s1 == [s EXCEPT !.history = SubSeq(@, 1, Len(@) - 1)]
         IN Return(navigate(s1, previousRoute.id, previousRoute.params,
                            previousRoute.query, meta, 0),
                   WentBack(Snap(s), TRUE, previousRoute.id))
    ELSE Return(navigate(s, DefaultModule(s), << >>, << >>, meta, 0),
                WentBack(Snap(s), TRUE, DefaultModule(s)))

\* Router.goBack
goBack(s, meta) ==
    IF Len(s.history) > 0
    THEN LET previousRoute == s.history[Len(s.history)]
             s1 == [s EXCEPT !.history = SubSeq(@, 1, Len(@) - 1)]
         IN Return(navigate(s1, previousRoute.id, previousRoute.params,
                            previousRoute.query, meta, 0),
                   WentBack(Snap(s), TRUE, previousRoute.id))
    ELSE Return(navigate(s, DefaultModule(s), << >>, << >>, meta, 0),
                WentBack(Snap(s), FALSE, DefaultModule(s)))

\* a string used as a module id
ToId(str) == IF Len(str) = 1 THEN str[1] ELSE "(compose)"

\* a call of App.navigateToModule(moduleId, updateHistory) from outside the
\* Router
callNavigateToModule(s, moduleId, updateHistory, origin) ==
    LET slot == FreeSlot(s)
        frame == [kind |-> "module", pc |-> "M0", id |-> moduleId,
                  module |-> moduleId, route |-> Null, previousRoute |-> Null,
                  meta |-> Meta(origin, "", Null), snap |-> Snap(s),
                  updateHistory |-> updateHistory, script |-> "none", html |-> "none",
                  instance |-> Null]
    IN navigateToModule([s EXCEPT !.frames[slot] = frame], slot)

\* App.loadDefaultModule: navigateToModule(hash || defaultModule, false)
loadDefaultModule(s) ==
    LET h == IF Len(s.hash) > 0 THEN Tail(s.hash) ELSE << >>
        targetModule == IF Truthy(h) THEN ToId(h) ELSE DefaultModule(s)
    IN callNavigateToModule(s, targetModule, FALSE, "app")

-----------------------------------------------------------------------------
(* The state machine *)

InitialHashes == { << >>, << "#", "equipes" >> }

\* the state App.init builds before initRouter (lines 30-39)
Booted(config, auth, hooks, h) ==
    [menuConfig |-> loadMenuConfiguration(config), authOk |-> auth,
     hookMode |-> hooks, routes |-> << >>, currentRoute |-> Null,
     history |-> << >>, hash |-> h, hashEvents |-> 0,
     frames |-> [i \in Slots |-> Free], microq |-> << >>, ret |-> << >>,
     loadedModules |-> << >>, currentModule |-> Null, content |-> Welcome,
     loading |-> FALSE, activeMenu |-> Null, overflow |-> FALSE,
     emitted |-> 0, hookFaults |-> 0, pageCalls |-> 0, visited |-> << >>,
     destroyed |-> FALSE, pendingInits |-> 0, refreshTimers |-> 0]

\* Router.constructor and Router.init, then App.loadDefaultModule, as
\* App.init runs them before it first yields (app.js lines 42-45)
Started(config, auth, hooks, h) ==
    loadDefaultModule(
        handleInitialRoute(registerRoutesFromConfig(Booted(config, auth, hooks, h)),
                           Meta("init", "", Null)))

\* the Router as shipped, with overriding hooks, with a failing authorization
Installed ==
    { [auth |-> TRUE, hooks |-> "shipped"],
      [auth |-> TRUE, hooks |-> "overridden"],
      [auth |-> FALSE, hooks |-> "shipped"] }

Init ==
    \E config \in MenuConfigs, inst \in Installed, h \in InitialHashes :
        InitialState(Started(config, inst.auth, inst.hooks, h))

\* a task may start only when no microtask is left
TaskMayRun == microq = << >>

\* The page makes its calls one at a time: it calls the router when nothing
\* is in flight.  What the program starts by itself (the two start-up
\* navigations, the hashchange echo of a navigation, the fallback and login
\* navigations) overlaps freely.
PageMayCall ==
    /\ Quiescent(S)
    /\ pageCalls < MaxPageCalls

Called(s) == [s EXCEPT !.pageCalls = @ + 1]

CallNavigate ==
    /\ PageMayCall
    /\ \E routeId \in NavIds(S), args \in NavArgs :
         Commit(navigate(Called(S), routeId, args[1], args[2],
                         Meta("caller", "", Null), 0))

\* the page calls router.goBack()
CallGoBack ==
    /\ PageMayCall
    /\ Commit(goBack(Called(S), Meta("goBack", "", Null)))

\* the user clicks a link of the menu: the listener App.createMenuElement
\* installed calls navigateToModule(item.module) (app.js lines 145-148)
ClickMenu ==
    /\ PageMayCall
    /\ \E i \in 1..Len(menuConfig.menuItems) :
         /\ menuConfig.menuItems[i].active
         /\ Commit(callNavigateToModule(Called(S), menuConfig.menuItems[i].module,
                                        TRUE, "click"))

\* the page calls app.navigateToModule with an id the menu does not hold
CallNavigateToModule ==
    /\ PageMayCall
    /\ Commit(callNavigateToModule(Called(S), "inconnu", TRUE, "caller"))

\* the page calls app.clearCache() (on an empty cache it changes nothing)
CallClearCache ==
    /\ PageMayCall
    /\ loadedModules # << >>
    /\ Commit(clearCache(Called(S)))

\* the hashchange listener of Router.bindEvents (lines 341-346)
HashChange ==
    /\ TaskMayRun
    /\ HasFreeSlot(S)
    /\ hashEvents > 0
    /\ Commit(handleInitialRoute([S EXCEPT !.hashEvents = @ - 1],
                                 Meta("hashchange", "", Null)))

\* the script element of loadVersionedScript fires onload or onerror
ScriptSettles ==
    /\ TaskMayRun
    /\ \E slot \in Slots :
         /\ frames[slot].kind # "free"
         /\ frames[slot].pc = "L1"
         /\ frames[slot].script = "pending"
         /\ Commit(Ready([S EXCEPT !.frames[slot].script =
                                       ScriptOutcome(frames[slot].module)],
                         slot, "L1"))

\* the fetch of loadVersionedFile for the template settles
HtmlSettles ==
    /\ TaskMayRun
    /\ \E slot \in Slots :
         /\ frames[slot].kind # "free"
         /\ frames[slot].html = "pending"
         /\ LET s1 == [S EXCEPT !.frames[slot].html = HtmlOutcome(frames[slot].module)] IN
            Commit(IF frames[slot].pc = "L2" THEN Ready(s1, slot, "L2") ELSE s1)

\* the continuation of the async call in `slot`, from the await it stopped at
Continue(s, slot, outcome) ==
    LET pc == s.frames[slot].pc IN
    CASE pc = "N1" -> navigateAfterHooks(s, slot, outcome)
      [] pc = "L1" -> loadModuleAfterScript(s, slot)
      [] pc = "L2" -> loadModuleAfterHtml(s, slot)
      [] pc = "M1" -> navigateToModuleAfterLoad(s, slot)
      [] pc = "N2" -> navigateAfterModule(s, slot)
      [] pc = "N3" -> navigateFinish(s, slot, outcome)

\* the continuation at the head of the microtask queue runs
RunMicrotask ==
    /\ microq # << >>
    /\ LET slot == Head(microq)
           s == [S EXCEPT !.microq = Tail(@)]
           outcomes == CASE frames[slot].pc = "N1" -> HookOutcomes(s)
                         [] frames[slot].pc = "N3" -> AfterHookOutcomes(s)
                         [] OTHER -> {"pass"}
       IN \E outcome \in outcomes :
            Commit(Continue([s EXCEPT !.hookFaults = IF outcome = "pass" THEN @ ELSE @ + 1],
                            slot, outcome))

Next ==
    \/ CallNavigate
    \/ CallGoBack
    \/ ClickMenu
    \/ CallNavigateToModule
    \/ CallClearCache
    \/ HashChange
    \/ ScriptSettles
    \/ HtmlSettles
    \/ RunMicrotask

Spec == Init /\ [][Next]_vars

-----------------------------------------------------------------------------
(* Router.saveToHistory as a function of the route it is given, the current *)
(* route and the history: the inputs are drawn by the initial state.        *)

\* histories of every length the Router keeps, of entries that differ
HistoryInputs ==
    LET ids == << "accueil", "equipes", "admin" >>
        entry(i) == [id |-> ids[(i % 3) + 1],
                     params |-> IF i % 2 = 0 THEN NoParams ELSE TabParams,
                     query |-> IF i % 4 = 0 THEN SortQuery ELSE NoQuery]
    IN { [i \in 1..n |-> entry(i)] : n \in 0..maxHistorySize }

\* saveToHistory calls made in one run
MaxSaves == 2

RouterOf(config) == registerRoutesFromConfig(Booted(config, TRUE, "shipped", << >>))

InitHistory ==
    \E h \in HistoryInputs, cur \in 0..Len(RouterOf(ConfigAuth).routes) :
        InitialState([RouterOf(ConfigAuth) EXCEPT
            !.history = h,
            !.currentRoute = IF cur = 0 THEN Null ELSE RouterOf(ConfigAuth).routes[cur]])

Saved(snap, route) == [kind |-> "saved", snap |-> snap, route |-> route]

\* router.saveToHistory(route) for a registered route or null
CallSaveToHistory ==
    /\ pageCalls < MaxSaves
    /\ \E r \in 0..Len(routes) :
         LET route == IF r = 0 THEN Null ELSE routes[r] IN
         Commit(Return(saveToHistory(Called(S), route), Saved(Snap(S), route)))

NextHistory == CallSaveToHistory

SpecHistory == InitHistory /\ [][NextHistory]_vars

-----------------------------------------------------------------------------
(* What a step settled and started *)

Events == {ret[i] : i \in 1..Len(ret)}
Navigated == {ev \in Events : ev.kind = "navigate"}
WentBacks == {ev \in Events : ev.kind = "goBack"}
InFlight == {frames[i] : i \in {j \in Slots : frames[j].kind # "free"}}

\* the calls that have run to their first await and no further: the calls the
\* last step started
JustStarted == {f \in InFlight : f.kind = "navigate" /\ f.pc = "N1"}

\* the last step called navigate(routeId) from `origin`
StartedNavigation(routeId, origin) ==
    \/ \E f \in JustStarted : f.id = routeId /\ f.meta.origin = origin
    \/ \E ev \in Navigated : ev.id = routeId /\ ev.meta.origin = origin

\* the nested navigate call made by the call that settled as ret[i]: the call
\* settled just before it, or the call left at its first await
NestedCall(i) ==
    IF i > 1 THEN << [id |-> ret[i - 1].id, origin |-> ret[i - 1].meta.origin] >>
    ELSE IF \E f \in JustStarted : f.meta.origin \in {"fallback", "login"}
    THEN LET f == CHOOSE g \in JustStarted : g.meta.origin \in {"fallback", "login"}
         IN << [id |-> f.id, origin |-> f.meta.origin] >>
    ELSE << >>

-----------------------------------------------------------------------------
(* C1 *)

\* C1 (as claimed): for every registered route id, when the authorization
\* check passes and the hooks let the navigation through, navigate(id), called
\* by the page with no other call of the page in between, resolves to true and
\* the current route read right after it resolves has that id.
C1_NavigateSetsCurrent ==
    \A ev \in Navigated :
        (/\ ev.meta.origin = "caller"
         /\ hasRoute(S, ev.id)
         /\ authOk
         /\ hookMode = "shipped")
        => /\ ev.result = "true"
           /\ currentRoute # Null
           /\ currentRoute.id = ev.id

-----------------------------------------------------------------------------
(* C2 *)

-----------------------------------------------------------------------------
(* C3 *)

\* C3 (as claimed): when a navigate that left route A for a route B with
\* another id has succeeded, the last history entry is A's id, params and query.
C3_NavigateAppendsPrevious ==
    \A ev \in Navigated :
        (/\ ev.result = "true"
         /\ ev.meta.origin = "caller"
         /\ hookMode = "shipped"
         /\ ev.previousRoute # Null
         /\ ev.previousRoute.id # ev.id)
        => /\ Len(history) > 0
           /\ history[Len(history)] = HistoryEntry(ev.previousRoute)

-----------------------------------------------------------------------------
(* C4 *)

\* C4 (as claimed): after a successful navigate(A) and then a successful
\* navigate(B), A # B (the initial navigation or calls of the page), goBack()
\* returns true and re-navigates to A.
C4_GoBackReturnsToPrevious ==
    \A ev \in WentBacks :
        (/\ Len(visited) = 2
         /\ hookMode = "shipped"
         /\ visited[1].id # visited[2].id
         /\ ev.snap.cur # Null
         /\ ev.snap.cur.id = visited[2].id)
        => /\ ev.result = TRUE
           /\ ev.target = visited[1].id
           /\ StartedNavigation(visited[1].id, "goBack")

-----------------------------------------------------------------------------
(* C5 *)

\* C5: goBack() called while the history is empty starts a navigation to the
\* default route id (settings.defaultModule, or 'accueil'), returns false, and
\* the history is empty when it returns.
C5_GoBackOnEmptyHistory ==
    \A ev \in WentBacks :
        ev.snap.hist = << >> =>
            /\ ev.result = FALSE
            /\ ev.target = (IF menuConfig.defaultModule # Null
                            THEN menuConfig.defaultModule.str ELSE "accueil")
            /\ StartedNavigation(ev.target, "goBack")
            /\ history = << >>

\* goBack() was called with an empty history while a route was current
C5_Witness ==
    \E ev \in WentBacks :
        /\ ev.snap.hist = << >>
        /\ ev.snap.cur # Null
        /\ \E f \in JustStarted : f.meta.origin = "goBack"

-----------------------------------------------------------------------------
(* C6 *)

\* C6: the history never holds more than maxHistorySize entries, and a
\* saveToHistory that appends (a route whose id is not the current route's)
\* to a full history removes the oldest entry: the entries left are the
\* former ones from the second on, then the new one.  A saveToHistory that
\* does not append leaves the history as it was.
C6_HistoryBoundedFifo ==
    /\ Len(history) <= maxHistorySize
    /\ \A ev \in Events :
        ev.kind = "saved" =>
            IF ev.route # Null /\ (ev.snap.cur = Null \/ ev.route.id # ev.snap.cur.id)
            THEN history = (IF Len(ev.snap.hist) = maxHistorySize
                            THEN Tail(ev.snap.hist) ELSE ev.snap.hist)
                           \o << HistoryEntry(ev.route) >>
            ELSE history = ev.snap.hist

\* an entry was appended to a full history
C6_Witness ==
    \E ev \in Events :
        /\ ev.kind = "saved"
        /\ Len(ev.snap.hist) = maxHistorySize
        /\ history # ev.snap.hist
        /\ history[1] = ev.snap.hist[2]
        /\ history[1] # ev.snap.hist[1]

-----------------------------------------------------------------------------
(* C7 *)

\* C7: a navigate(id) made while the current route already has that id adds
\* no history entry.
C7_SameIdAddsNoHistory ==
    \A f \in JustStarted :
        (f.snap.cur # Null /\ f.snap.cur.id = f.id) => history = f.snap.hist

\* the page navigates again to the current route, with the same params
C7_Witness ==
    \E f \in JustStarted :
        /\ f.meta.origin = "caller"
        /\ f.snap.cur # Null
        /\ f.snap.cur.id = f.id
        /\ f.snap.cur.params = f.route.params
        /\ f.route.params # << >>

-----------------------------------------------------------------------------
(* C8 *)

\* C8: navigate(id) for a route that requires authorization, when the
\* authorization check fails, starts a navigation to 'login' and returns false
\* with the current route as it was; while the check fails no protected route
\* becomes the current route and no navigate activates a protected module.
C8_AuthFailureRedirectsToLogin ==
    /\ \A i \in 1..Len(ret) :
        (ret[i].kind = "navigate" /\ ret[i].why = "auth") =>
            /\ ret[i].result = "false"
            /\ NestedCall(i) = << [id |-> "login", origin |-> "login"] >>
            /\ currentRoute = ret[i].snap.cur
    /\ ~authOk =>
        /\ currentRoute = Null \/ ~currentRoute.requiresAuth
        /\ \A f \in InFlight : f.kind = "navigate" => ~f.route.requiresAuth

\* the page asked for a protected route while the check fails
C8_Witness ==
    \E ev \in Navigated :
        /\ ev.why = "auth"
        /\ ev.meta.origin = "caller"
        /\ ev.snap.cur # Null
        /\ hasRoute(S, ev.id)
        /\ getRoute(S, ev.id).requiresAuth

-----------------------------------------------------------------------------
(* C9 *)

\* C9: when the pre-navigation hooks resolve false, navigate returns false and
\* the current route, the history, the address, the rendered content and the
\* active module are the ones before the call; no hashchange is caused and no
\* navigation event is emitted.
C9_VetoMutatesNothing ==
    \A ev \in Navigated :
        ev.why = "veto" =>
            /\ ev.result = "false"
            /\ currentRoute = ev.snap.cur
            /\ history = ev.snap.hist
            /\ hash = ev.snap.hash
            /\ hashEvents = ev.snap.hashEvents
            /\ content = ev.snap.content
            /\ currentModule = ev.snap.module
            /\ emitted = ev.snap.emitted

\* a hook vetoed a navigation of the page from a current route to another one
C9_Witness ==
    \E ev \in Navigated :
        /\ ev.why = "veto"
        /\ ev.meta.origin = "caller"
        /\ ev.snap.cur # Null
        /\ ev.snap.cur.id # ev.id

-----------------------------------------------------------------------------
(* C10 *)

\* C10: the promise navigate returns resolves to a boolean and never rejects,
\* whatever the id, the hooks and the module loads do; a call that threw
\* (unknown id, throwing hook) started a fallback navigation to the default
\* route when its id is not the default route id, and none otherwise.
C10_NavigateNeverRejects ==
    \A i \in 1..Len(ret) :
        ret[i].kind = "navigate" =>
            /\ ret[i].result \in {"true", "false"}
            /\ ret[i].why \in {"unknown", "throw"} =>
                NestedCall(i) = IF ret[i].id # DefaultModule(S)
                                THEN << [id |-> DefaultModule(S), origin |-> "fallback"] >>
                                ELSE << >>

\* a hook threw in a navigation of the page to a route other than the default
\* one, and the fallback navigation is on its way
C10_Witness ==
    \E i \in 1..Len(ret) :
        /\ ret[i].kind = "navigate"
        /\ ret[i].why = "throw"
        /\ ret[i].meta.origin = "caller"
        /\ ret[i].id # DefaultModule(S)
        /\ \E f \in JustStarted : f.meta.origin = "fallback" /\ f.meta.cause = "throw"

-----------------------------------------------------------------------------
(* Router.buildQueryString and Router.parseQueryString as functions of the  *)
(* mapping: the mappings are drawn by the action.                           *)

\* keys and values of the mappings: plain, with a character that is encoded,
\* the empty string, reserved characters, boolean true
QueryKeys == { << "a" >>, << "b" >>, << "a b" >> }
QueryValues == { Str(<< "1" >>), Str(<< >>), Str(<< "=", "&" >>), True }

\* entries of a mapping
MaxQueryLen == 2
\* round trips made in one run
MaxQueries == 2

\* the mappings of at most MaxQueryLen entries, in insertion order
QueryInputs ==
    UNION { { q \in [1..n -> [k : QueryKeys, v : QueryValues]] :
                \A i, j \in 1..n : q[i].k = q[j].k => i = j } : n \in 0..MaxQueryLen }

RoundTrip(q) ==
    [kind |-> "query", q |-> q, built |-> buildQueryString(q),
     parsed |-> parseQueryString(buildQueryString(q))]

InitQuery == InitialState(RouterOf(ConfigAuth))

\* router.parseQueryString(router.buildQueryString(q))
CallQueryRoundTrip ==
    /\ pageCalls < MaxQueries
    /\ \E q \in QueryInputs : Commit(Return(Called(S), RoundTrip(q)))

NextQuery == CallQueryRoundTrip

SpecQuery == InitQuery /\ [][NextQuery]_vars

-----------------------------------------------------------------------------
(* C11 *)

\* C11 (as claimed): for every mapping q of string keys to string values or
\* true, parseQueryString(buildQueryString(q)) is q.
C11_QueryRoundTrip ==
    \A ev \in Events : ev.kind = "query" => ev.parsed = ev.q

-----------------------------------------------------------------------------
(* C12 *)

\* the step made the call in `slot` run App.loadModule: the call was at the
\* hooks' await or did not exist, and is now loading or has rendered
LoadStarted(slot) ==
    /\ frames'[slot].kind # "free"
    /\ frames'[slot].pc \in {"L1", "M1"}
    /\ frames[slot].kind = "free" \/ frames[slot].pc = "N1"

\* what App.renderModule shows for a cache entry
Rendered(entry) == [kind |-> "module", module |-> entry.html, instance |-> entry.instance]

\* C12: a loadModule(m) made while the cache holds an entry for m (a load of m
\* completed and clearCache was not called since) issues no template fetch and
\* no script load, and renders the markup and the instance of the entry.
C12_CacheHitIssuesNoLoad ==
    [][\A slot \in Slots :
        (LoadStarted(slot) /\ IsCached(S, frames'[slot].module)) =>
            /\ frames'[slot].pc = "M1"
            /\ frames'[slot].script = "none"
            /\ frames'[slot].html = "none"
            /\ content' = Rendered(loadedModules[frames'[slot].module])]_vars

\* a navigation of the page has rendered a module with an instance from the
\* cache, without a load
C12_Witness ==
    \E f \in InFlight :
        /\ f.kind = "navigate"
        /\ f.meta.origin = "caller"
        /\ f.pc = "M1"
        /\ f.script = "none"
        /\ f.html = "none"
        /\ IsCached(S, f.module)
        /\ loadedModules[f.module].instance # Null
        /\ content = Rendered(loadedModules[f.module])

-----------------------------------------------------------------------------
(* C13 *)

\* C13 (as claimed): when a navigate(id, params, query) of the page to a
\* registered route has returned true, the address fragment is '#', the
\* route's path, then buildQueryString(query).
C13_AddressAfterNavigate ==
    \A ev \in Navigated :
        (/\ ev.result = "true"
         /\ ev.meta.origin = "caller"
         /\ hookMode = "shipped")
        => hash = << "#" >> \o getRoute(S, ev.id).path \o buildQueryString(ev.query)

-----------------------------------------------------------------------------
(* Router.registerRoute as a function of the table and its arguments *)

\* ids registered: two of the menu, a new one
RegisterIds == {"accueil", "equipes", "nouveau"}

\* configurations: without a module ("" stands for an absent one), without a
\* path, with a path that starts with the route marker, with one that starts
\* with two
RegisterConfigs ==
    [path : { << >>, << "#", "stats" >>, << "accueil" >>, << "#", "#", "stats" >> },
     module : {"", "accueil", "nouveau"},
     requiresAuth : BOOLEAN]

\* registerRoute calls made in one run
MaxRegisters == 2

\* a menu item whose url starts with three route markers
ConfigMarkers ==
    [menuItems |-> << Item(1, "accueil", << "#", "accueil" >>, TRUE, FALSE),
                      Item(2, "stats", << "#", "#", "#", "stats" >>, TRUE, FALSE) >>,
     defaultModule |-> Null]

InitRegister ==
    \E config \in MenuConfigs \cup {ConfigMarkers} : InitialState(RouterOf(config))

Registered(before, routeId, routeConfig, threw) ==
    [kind |-> "registered", routes |-> before, id |-> routeId,
     config |-> routeConfig, threw |-> threw]

\* router.registerRoute(routeId, routeConfig)
CallRegisterRoute ==
    /\ pageCalls < MaxRegisters
    /\ \E routeId \in RegisterIds, routeConfig \in RegisterConfigs :
         Commit(Return(registerRoute(Called(S), routeId, routeConfig),
                       Registered(routes, routeId, routeConfig,
                                  registerRouteThrows(routeConfig))))

NextRegister == CallRegisterRoute

SpecRegister == InitRegister /\ [][NextRegister]_vars

-----------------------------------------------------------------------------
(* C14 *)

\* the ids of a route table, in order
RouteIds(table) == [i \in 1..Len(table) |-> table[i].id]

\* C14: registerRoute(id, config) throws when config.module is absent and
\* then leaves the route table as it was; otherwise it puts the route under
\* id, in the place of an earlier route with that id if there is one, leaves
\* the other routes alone, and the table holds one route per id.
C14_RegisterRoute ==
    /\ \A i, j \in 1..Len(routes) : routes[i].id = routes[j].id => i = j
    /\ \A ev \in Events :
        ev.kind = "registered" =>
            IF ev.config.module = ""
            THEN ev.threw /\ routes = ev.routes
            ELSE /\ ~ev.threw
                 /\ hasRoute(S, ev.id)
                 /\ getRoute(S, ev.id).module = ev.config.module
                 /\ getRoute(S, ev.id).requiresAuth = ev.config.requiresAuth
                 /\ RouteIds(routes) = IF \E i \in 1..Len(ev.routes) : ev.routes[i].id = ev.id
                                       THEN RouteIds(ev.routes)
                                       ELSE Append(RouteIds(ev.routes), ev.id)
                 /\ \A i \in 1..Len(ev.routes) :
                        ev.routes[i].id # ev.id => routes[i] = ev.routes[i]

\* a route was registered under an id the table already held, with another
\* module
C14_Witness ==
    \E ev \in Events :
        /\ ev.kind = "registered"
        /\ ~ev.threw
        /\ \E i \in 1..Len(ev.routes) :
            ev.routes[i].id = ev.id /\ ev.routes[i].module # ev.config.module

-----------------------------------------------------------------------------
(* C15 *)

ModuleFailures == {ev \in Events : ev.kind = "moduleFailed"}

\* C15: when navigateToModule(moduleId) meets a fatal error (no menu item for
\* moduleId, or the template fetch failed) the content is the error panel for
\* moduleId, the recorded current module and the cache are the ones before
\* the failure, and the caller goes on normally: a navigate that awaited the
\* call resumes after its await, nothing is thrown into its catch block.
C15_FatalErrorShowsPanel ==
    \A ev \in ModuleFailures :
        /\ content = ErrorPanel(ev.module)
        /\ currentModule = ev.currentModule
        /\ DOMAIN loadedModules = ev.cached
        /\ ~loading
        /\ ev.caller = "navigate" =>
            /\ frames[ev.slot].kind = "navigate"
            /\ frames[ev.slot].pc = "N2"
            /\ ev.slot \in {microq[i] : i \in 1..Len(microq)}
        /\ \A nv \in Navigated : nv.why # "throw"

\* the template fetch of a module failed in a navigate, while another module
\* was the current one
C15_Witness ==
    \E ev \in ModuleFailures :
        /\ ev.caller = "navigate"
        /\ ItemExists(S, ev.module)
        /\ ev.currentModule # Null
        /\ ev.currentModule # Str(ev.module)

-----------------------------------------------------------------------------
(* C16 *)

\* the navigate calls of Router.handleInitialRoute (at start-up, on a
\* hashchange) that the last step made: the address they were made from, the
\* id and the query they were given
Resolutions ==
    { [hash |-> f.snap.hash, id |-> f.id, params |-> f.route.params,
       query |-> f.route.query] :
        f \in {g \in JustStarted : g.meta.origin \in {"init", "hashchange"}} }
    \cup
    { [hash |-> ev.snap.hash, id |-> ev.id, params |-> ev.params, query |-> ev.query] :
        ev \in {nv \in Navigated : /\ nv.meta.origin \in {"init", "hashchange"}
                                   /\ nv.why \in {"unknown", "auth"}} }

\* the address without its '#', up to the first '?'
PathOfHash(h) ==
    LET body == IF Len(h) > 0 THEN Tail(h) ELSE << >>
        q == IndexOf(body, "?", 1)
    IN IF q = 0 THEN body ELSE SubSeq(body, 1, q - 1)

\* C16: handleInitialRoute navigates to the first route, in registration
\* order, whose path is the path of the address, or to the default route id
\* (settings.defaultModule, or 'accueil') when no route has that path, with no
\* params and with the query parsed from the address.
C16_InitialRouteResolution ==
    \A r \in Resolutions :
        LET path == PathOfHash(r.hash)
            hits == {i \in 1..Len(routes) : routes[i].path = path}
        IN /\ r.id = IF hits # {}
                     THEN routes[CHOOSE i \in hits : \A j \in hits : i <= j].id
                     ELSE IF menuConfig.defaultModule # Null
                          THEN menuConfig.defaultModule.str ELSE "accueil"
           /\ r.params = << >>
           /\ r.query = parseCurrentURL([S EXCEPT !.hash = r.hash]).query

\* a hashchange was resolved from an address with a query whose path two
\* routes share
C16_Witness ==
    \E r \in Resolutions :
        /\ r.query # << >>
        /\ Cardinality({i \in 1..Len(routes) : routes[i].path = PathOfHash(r.hash)}) > 1

-----------------------------------------------------------------------------
(* Route tables whose login route or default route is protected *)

\* the 'login' route itself requires authorization
ConfigLoginGuarded ==
    [menuItems |-> << Item(1, "accueil", << "#", "accueil" >>, TRUE, FALSE),
                      Item(2, "admin", << "#", "admin" >>, TRUE, TRUE),
                      Item(3, "login", << "#", "login" >>, TRUE, TRUE) >>,
     defaultModule |-> Null]

\* the default route requires authorization and no 'login' route is registered
ConfigDefaultGuarded ==
    [menuItems |-> << Item(1, "accueil", << "#", "accueil" >>, TRUE, FALSE),
                      Item(2, "admin", << "#", "admin" >>, TRUE, TRUE) >>,
     defaultModule |-> Str("admin")]

GuardedConfigs == {ConfigLoginGuarded, ConfigDefaultGuarded}

\* the Router as shipped but for checkAuthentication, which grants or refuses
InitChain ==
    \E config \in GuardedConfigs, auth \in BOOLEAN, h \in InitialHashes :
        InitialState(Started(config, auth, "shipped", h))

NextChain == Next

SpecChain == InitChain /\ [][NextChain]_vars

(* C17 *)

\* C17: the chain of navigate calls that one navigate call nests (login
\* redirect, error fallback) is finite: it never outgrows the call stack.
C17_NestedChainIsFinite == ~overflow

-----------------------------------------------------------------------------
(* C18 *)

\* the calls of App.loadModule that have issued a script load and a template
\* fetch for moduleId and have not completed
Loading(moduleId) ==
    {slot \in Slots : /\ frames[slot].kind # "free"
                      /\ frames[slot].pc \in {"L1", "L2"}
                      /\ frames[slot].module = moduleId}

\* C18 (as claimed), for the loads App.init starts: before any call of the
\* page (so with no clearCache), the script load and the template fetch of a
\* module are issued at most once, hence by at most one call of loadModule.
C18_LoadsIssuedOnce ==
    pageCalls = 0 =>
        \A slot \in Slots :
            frames[slot].kind # "free" =>
                Cardinality(Loading(frames[slot].module)) <= 1

-----------------------------------------------------------------------------
(* Overlapping navigate calls: the page does not wait for a call to complete *)

\* ids of routes whose module loads (its template is served)
OverlapIds == {"accueil", "equipes"}

\* the shipped Router, every authorization granted
InitOverlap ==
    \E h \in InitialHashes : InitialState(Started(ConfigAuth, TRUE, "shipped", h))

\* the page calls router.navigate(routeId) from a task of its own, whatever
\* is in flight
CallNavigateOverlapping ==
    /\ TaskMayRun
    /\ HasFreeSlot(S)
    /\ pageCalls < MaxPageCalls
    /\ \E routeId \in OverlapIds :
         Commit(navigate(Called(S), routeId, NoParams, NoQuery,
                         Meta("caller", "", Null), 0))

NextOverlap ==
    \/ CallNavigateOverlapping
    \/ HashChange
    \/ ScriptSettles
    \/ HtmlSettles
    \/ RunMicrotask

SpecOverlap == InitOverlap /\ [][NextOverlap]_vars

(* C19 *)

\* C19 (as claimed): once nothing is in flight and a navigation has
\* succeeded (a navigate call returned true, so emitted its event), the
\* App's current module is the module of the Router's current route.
C19_RouterAndAppAgree ==
    (Quiescent(S) /\ emitted > 0) =>
        /\ currentRoute # Null
        /\ currentModule = Str(currentRoute.module)

-----------------------------------------------------------------------------
(* C20 *)

\* the clicks on a menu link whose navigateToModule the last step completed
ClicksCompleted ==
    {ev \in Events : ev.kind = "activated" /\ ev.meta.origin = "click"}

\* C20 (as claimed): when the activation a click on a menu link started has
\* completed, the Router's current route is a route of the clicked module and
\* a navigation event was emitted since the click.
C20_ClickGoesThroughRouter ==
    \A ev \in ClicksCompleted :
        /\ currentRoute # Null
        /\ currentRoute.module = ev.module
        /\ emitted > ev.snap.emitted

-----------------------------------------------------------------------------
(* C21 *)

\* C21 (as claimed): a navigate call that resolves to true has loaded and
\* rendered the module of its route: the template fetch of its loadModule did
\* not fail, so no error panel was shown for it.
C21_TrueOnlyOnSuccess ==
    \A ev \in Navigated :
        ev.result = "true" => ev.html \in {"ok", "none"}

-----------------------------------------------------------------------------
(* C22 *)

\* the navigations the hashchange listener started that the last step
\* completed, with the route they overwrote: the route of the navigate call
\* whose address change they answer
Echoes ==
    {ev \in Navigated : /\ ev.meta.origin = "hashchange"
                        /\ ev.result = "true"
                        /\ ev.previousRoute # Null}

\* C22 (as claimed): with the shipped hooks, once the hashchange caused by the
\* URL update of a successful navigate(id, params, query) has been handled,
\* the current route still has that id and those params.
C22_StableUnderOwnAddressChange ==
    hookMode = "shipped" =>
        \A ev \in Echoes :
            /\ currentRoute.id = ev.previousRoute.id
            /\ currentRoute.params = ev.previousRoute.params

-----------------------------------------------------------------------------
(* Browser back/forward: the popstate listener of Router.bindEvents *)

\* event.state of a popstate event: none, the state App.navigateToModule
\* pushes ({module}, no route id), a state with an empty, a registered or an
\* unregistered route id
PopStates ==
    { Null, [routeId |-> Null], [routeId |-> Str("")],
      [routeId |-> Str("accueil")], [routeId |-> Str("inconnu")] }

\* the address of the session history entry the browser moves to
PopAddresses == { << >>, << "#", "accueil" >>, << "#", "equipes" >> }

\* event.state && event.state.routeId
HasRouteId(state) ==
    /\ state # Null
    /\ state.routeId # Null
    /\ state.routeId.str # ""

\* a popstate event was handled, with the address it was handled at
Popped(state, address) == [kind |-> "popstate", state |-> state, hash |-> address]

\* the popstate listener (lines 325-338)
onPopState(s, state) ==
    IF HasRouteId(state)
    THEN LET routeId == state.routeId.str IN
         IF hasRoute(s, routeId)
         THEN navigate(s, routeId, << >>, << >>, Meta("popstate", "", Null), 0)
         ELSE s
    ELSE handleInitialRoute(s, Meta("popstateResolve", "", Null))

\* the shipped Router, every authorization granted
InitPopState ==
    \E config \in MenuConfigs, h \in InitialHashes :
        InitialState(Started(config, TRUE, "shipped", h))

\* the user goes back or forward: the browser moves to a session history
\* entry, sets the address to the entry's, and dispatches popstate with the
\* entry's state, then hashchange if the fragment changed
PopState ==
    /\ PageMayCall
    /\ \E state \in PopStates, address \in PopAddresses :
         LET s1 == [Called(S) EXCEPT !.hash = address,
                                     !.hashEvents = IF hash # address THEN @ + 1 ELSE @]
         IN Commit(Return(onPopState(s1, state), Popped(state, address)))

NextPopState ==
    \/ PopState
    \/ HashChange
    \/ ScriptSettles
    \/ HtmlSettles
    \/ RunMicrotask

SpecPopState == InitPopState /\ [][NextPopState]_vars

(* C23 *)

Pops == {ev \in Events : ev.kind = "popstate"}

\* the route id handleInitialRoute resolves the address h to
ResolvedId(h) ==
    LET path == PathOfHash(h)
        hits == {i \in 1..Len(routes) : routes[i].path = path}
    IN IF hits # {} THEN routes[CHOOSE i \in hits : \A j \in hits : i <= j].id
       ELSE DefaultModule(S)

\* C23 (as claimed): on a popstate event whose state carries a route id of the
\* route table the router navigates to that id; in every other case (no
\* state, no route id, a route id that is not in the table) it re-resolves the
\* route from the address.
C23_PopState ==
    \A ev \in Pops :
        IF HasRouteId(ev.state) /\ hasRoute(S, ev.state.routeId.str)
        THEN StartedNavigation(ev.state.routeId.str, "popstate")
        ELSE StartedNavigation(ResolvedId(ev.hash), "popstateResolve")

-----------------------------------------------------------------------------
(* C24 *)

\* the 'router:navigate' events the last step dispatched
Dispatched == {ev \in Events : ev.kind = "event"}

\* C24: a step dispatches one 'router:navigate' event for each navigate call
\* it makes return true, and none otherwise.  The call that returns true was
\* at its last await (the after-navigation hooks): it had set the current
\* route, updated the URL, and its App.navigateToModule had completed.  The
\* detail of its event holds the route it navigated to and the route the
\* current-route pointer held when the call overwrote it.
C24_EventOncePerSuccess ==
    [][LET trues == {i \in 1..Len(ret') : ret'[i].kind = "navigate" /\ ret'[i].result = "true"}
           events == {i \in 1..Len(ret') : ret'[i].kind = "event"}
       IN /\ emitted' = emitted + Cardinality(trues)
          /\ Cardinality(events) = Cardinality(trues)
          /\ \A i \in trues :
               /\ microq # << >>
               /\ LET f == frames[Head(microq)] IN
                  /\ f.kind = "navigate"
                  /\ f.pc = "N3"
                  /\ f.id = ret'[i].id
                  /\ f.snap = Null
                  /\ \A j \in events :
                       /\ ret'[j].name = << "router:", "navigate" >>
                       /\ ret'[j].detail.currentRoute.id = f.id
                       /\ ret'[j].detail.currentRoute.params = ret'[i].params
                       /\ ret'[j].detail.currentRoute.query = ret'[i].query
                       /\ ret'[j].detail.previousRoute = ret'[i].previousRoute]_vars

\* a navigate of the page from a current route returned true and its event
\* was dispatched with that route as previousRoute
C24_Witness ==
    /\ \E ev \in Navigated :
         /\ ev.result = "true"
         /\ ev.meta.origin = "caller"
         /\ ev.previousRoute # Null
         /\ ev.previousRoute.id # ev.id
    /\ \E d \in Dispatched : d.detail.previousRoute # Null

-----------------------------------------------------------------------------
(* C25 *)

\* the calls of App.navigateToModule that have not completed: they await
\* loadModule
ModuleCallsInFlight ==
    {slot \in Slots : /\ frames[slot].kind # "free"
                      /\ frames[slot].pc \in {"L1", "L2", "M1"}}

\* C25 (as claimed): the loading overlay is visible while a navigateToModule
\* call is in flight and hidden when none is.
C25_LoadingWhileInFlight == loading <=> ModuleCallsInFlight # {}

-----------------------------------------------------------------------------
(* C26 *)

\* C26: the route table is the one registerRoutesFromConfig built: every route
\* has the id, path, module and requiresAuth it was registered with, and empty
\* params and query, whatever navigate and goBack calls were made.
C26_RouteTableNeverMutated ==
    /\ routes = registerRoutesFromConfig([S EXCEPT !.routes = << >>]).routes
    /\ \A i \in 1..Len(routes) :
         /\ routes[i].params = << >>
         /\ routes[i].query = << >>

\* the current route holds the params and the query of a navigate of the
\* page, the route of the table with its id holds none
C26_Witness ==
    /\ currentRoute # Null
    /\ currentRoute.params = TabParams
    /\ currentRoute.query = SortQuery
    /\ getRoute(S, currentRoute.id).params = << >>
    /\ pageCalls > 0

-----------------------------------------------------------------------------
(* C27 *)

\* C27 (as claimed): no route of the table has a path that starts with the
\* route marker '#'.
C27_NoLeadingMarker ==
    \A i \in 1..Len(routes) :
        Len(routes[i].path) > 0 => routes[i].path[1] # "#"

-----------------------------------------------------------------------------
(* C28 *)

\* the behavior script of the call in `slot` failed: its load was rejected or
\* the constructor of its class threw
ScriptFailed(slot) ==
    \/ frames[slot].script = "fail"
    \/ frames[slot].script = "ok" /\ frames[slot].module \in ConstructorThrows

\* the step is the continuation of the loadModule in `slot` from the await
\* it stopped at
LoadStep(slot, pc) ==
    /\ microq # << >>
    /\ Head(microq) = slot
    /\ frames[slot].pc = pc

\* C28: when the behavior script of module m failed and the template fetch
\* does not fail, loadModule(m) completes without error: after the script it
\* goes on to await the template, and with the template it caches the entry of
\* m with the markup and a null instance and renders the markup.
C28_ScriptFailureNotFatal ==
    [][\A slot \in Slots :
        /\ (LoadStep(slot, "L1") /\ ScriptFailed(slot) /\ frames[slot].html # "fail") =>
               /\ frames'[slot].kind # "free"
               /\ frames'[slot].pc = "L2"
               /\ frames'[slot].instance = Null
               /\ \A i \in 1..Len(ret') : ret'[i].kind # "moduleFailed"
        /\ (LoadStep(slot, "L2") /\ ScriptFailed(slot) /\ frames[slot].html = "ok") =>
               LET m == frames[slot].module
                   entry == [html |-> m, instance |-> Null]
               IN /\ frames'[slot].kind # "free"
                  /\ frames'[slot].pc = "M1"
                  /\ m \in DOMAIN loadedModules'
                  /\ loadedModules'[m] = entry
                  /\ content' = Rendered(entry)
                  /\ \A i \in 1..Len(ret') : ret'[i].kind # "moduleFailed"]_vars

\* a module whose script is not served and one whose constructor throws are
\* both cached with a null instance, the second one rendered last
C28_Witness ==
    /\ IsCached(S, "equipes")
    /\ loadedModules["equipes"].instance = Null
    /\ IsCached(S, "admin")
    /\ loadedModules["admin"].instance = Null
    /\ content = Rendered(loadedModules["admin"])

-----------------------------------------------------------------------------
(* C29 *)

\* C29: a loadModule that misses the cache issues the template fetch and the
\* script load together.  While its script load has not settled it stays at
\* the await of the script, whatever the template fetch did.  It reaches the
\* end of loadModule, and the cache gets an entry, only in the step that
\* continues it after the template with the script settled and the template
\* fetched; with a failed template that step fails the call, caches nothing
\* and shows the error panel.
C29_RenderAfterBothSettle ==
    [][/\ \A slot \in Slots :
            /\ (LoadStarted(slot) /\ frames'[slot].pc = "L1") =>
                   /\ frames'[slot].html = "pending"
                   /\ frames'[slot].script = "pending"
            /\ (frames'[slot].kind # "free" /\ frames'[slot].script = "pending") =>
                   frames'[slot].pc = "L1"
            /\ (/\ frames[slot].kind # "free"
                /\ frames[slot].pc \in {"L1", "L2"}
                /\ frames'[slot].kind # "free"
                /\ frames'[slot].pc = "M1") =>
                   /\ LoadStep(slot, "L2")
                   /\ frames[slot].script \in {"ok", "fail"}
                   /\ frames[slot].html = "ok"
                   /\ content' = Rendered(loadedModules'[frames[slot].module])
            /\ (LoadStep(slot, "L2") /\ frames[slot].html = "fail") =>
                   /\ loadedModules' = loadedModules
                   /\ content' = ErrorPanel(frames[slot].module)
                   /\ \E i \in 1..Len(ret') :
                        ret'[i].kind = "moduleFailed" /\ ret'[i].slot = slot
       /\ \A m \in DOMAIN loadedModules' :
            (m \notin DOMAIN loadedModules \/ loadedModules'[m] # loadedModules[m]) =>
                \E slot \in Slots :
                    /\ LoadStep(slot, "L2")
                    /\ frames[slot].module = m
                    /\ frames[slot].script \in {"ok", "fail"}
                    /\ frames[slot].html = "ok"]_vars

\* a call of the page waits for its script with the template already fetched:
\* nothing is rendered or cached for its module
C29_Witness ==
    \E slot \in Slots :
        /\ frames[slot].kind = "navigate"
        /\ frames[slot].meta.origin = "caller"
        /\ frames[slot].pc = "L1"
        /\ frames[slot].script = "pending"
        /\ frames[slot].html = "ok"
        /\ ~IsCached(S, frames[slot].module)
        /\ content.module # frames[slot].module

-----------------------------------------------------------------------------
(* The address feedback: navigate writes the fragment, the hashchange listener
   navigates again *)

\* a query with a boolean value, one with characters that are encoded
TrueQuery == << [k |-> << "actif" >>, v |-> True] >>
ReservedQuery == << [k |-> << "a b" >>, v |-> Str(<< "=", "&" >>)] >>

\* the (params, query) pairs the page passes
EchoArgs ==
    NavArgs \cup { << NoParams, TrueQuery >>, << NoParams, ReservedQuery >> }

\* the shipped Router, every authorization granted
InitEcho ==
    \E config \in MenuConfigs, h \in InitialHashes :
        InitialState(Started(config, TRUE, "shipped", h))

\* the page calls router.navigate(routeId, params, query)
CallNavigateQuery ==
    /\ PageMayCall
    /\ \E routeId \in NavIds(S), args \in EchoArgs :
         Commit(navigate(Called(S), routeId, args[1], args[2],
                         Meta("caller", "", Null), 0))

NextEcho ==
    \/ CallNavigateQuery
    \/ HashChange
    \/ ScriptSettles
    \/ HtmlSettles
    \/ RunMicrotask

SpecEcho == InitEcho /\ [][NextEcho]_vars

(* C30 *)

\* the calls of updateURL so far: one by each navigate call that has passed
\* its hooks, which either is still in flight or has emitted its event
UrlUpdates ==
    emitted + Cardinality({slot \in Slots : /\ frames[slot].kind = "navigate"
                                            /\ frames[slot].pc # "N1"})

\* C30: the address feedback ends.  App.init and each navigate call of the
\* page cause at most three updates of the URL (the call's own and those of
\* two re-navigations), so at most two hashchange events; and when the router
\* has come to rest the fragment in the address bar is the one the current
\* route writes.
C30_FeedbackReachesFixedPoint ==
    /\ UrlUpdates <= 3 * (pageCalls + 1)
    /\ hashEvents <= 1
    /\ (Quiescent(S) /\ currentRoute # Null) =>
           hash = << "#" >> \o currentRoute.path \o buildQueryString(currentRoute.query)

\* the navigation a hashchange started wrote another fragment than the one it
\* was resolved from: a second hashchange is pending
C30_Witness ==
    /\ hashEvents > 0
    /\ \E f \in InFlight :
         /\ f.kind = "navigate"
         /\ f.meta.origin = "hashchange"
         /\ f.pc # "N1"
         /\ f.previousRoute # Null
         /\ f.previousRoute.query = EmptyQuery
         /\ f.route.query # EmptyQuery

-----------------------------------------------------------------------------
(* Router.destroy *)

\* Router.destroy (lines 436-447). The two removeEventListener calls are
\* given this.handlePopState and this.handleHashChange, properties nothing
\* defines: the listeners bindEvents installed are anonymous functions and
\* stay installed. The route table, the history and the current route are
\* cleared.
destroy(s) ==
    [s EXCEPT !.routes = << >>, !.history = << >>, !.currentRoute = Null,
              !.destroyed = TRUE]

\* the page calls router.destroy(); the event holds the router state the
\* call left
CallDestroy ==
    /\ PageMayCall
    /\ LET s1 == destroy(Called(S))
       IN Commit(Return(s1, [kind |-> "destroyed", routes |-> s1.routes,
                             history |-> s1.history,
                             currentRoute |-> s1.currentRoute]))

NextDestroy ==
    \/ CallDestroy
    \/ PopState
    \/ HashChange
    \/ ScriptSettles
    \/ HtmlSettles
    \/ RunMicrotask

SpecDestroy == InitPopState /\ [][NextDestroy]_vars

\* the navigate calls of the last step the two window listeners made
ListenerNavigations ==
    LET origins == {"popstate", "popstateResolve", "hashchange"}
    IN {ev \in Navigated : ev.meta.origin \in origins}
           \cup {f \in JustStarted : f.meta.origin \in origins}

\* C31: destroy() leaves the route table and the history empty and the
\* current route null, and on a destroyed router no popstate or hashchange
\* event makes a listener call navigate.
C31_DestroyDetachesRouter ==
    /\ \A ev \in Events :
         ev.kind = "destroyed" =>
            /\ ev.routes = << >>
            /\ ev.history = << >>
            /\ ev.currentRoute = Null
    /\ destroyed => ListenerNavigations = {}

-----------------------------------------------------------------------------
(* The auto-refresh of the Accueil module *)

\* AccueilModule.startAutoRefresh (lines 264-269): a new interval is set and
\* its id overwrites this.refreshInterval; the interval an earlier init of
\* the instance set is not cleared. Only AccueilModule.destroy clears one,
\* and nothing calls it.
startAutoRefresh(s) == [s EXCEPT !.refreshTimers = @ + 1]

\* AccueilModule.init after loadDashboardData (lines 30-42): the statistics
\* and the activities are rendered into the elements init captured, the
\* events are bound, the auto-refresh starts
initAfterLoad(s) == startAutoRefresh([s EXCEPT !.pendingInits = @ - 1])

\* the delay of a loadDashboardData elapses (lines 73, 384-386): the init
\* that awaits it resumes
DashboardLoaded ==
    /\ TaskMayRun
    /\ pendingInits > 0
    /\ Commit(initAfterLoad(S))

NextRefresh ==
    \/ CallNavigate
    \/ ClickMenu
    \/ HashChange
    \/ ScriptSettles
    \/ HtmlSettles
    \/ RunMicrotask
    \/ DashboardLoaded

SpecRefresh == InitPopState /\ [][NextRefresh]_vars

====
